---- MODULE Spec2Model ----
(***************************************************************************)
(* A model of scrape_webcal.py: the ICS event extractor, the event         *)
(* normalizer, the payload builder and the change-detect-and-publish run.  *)
(*                                                                         *)
(* Text is modelled as a sequence of pieces: every digit, ":", ";", " "    *)
(* and "T" of a timestamp is a piece of its own, every other piece is a    *)
(* run of characters none of the string operations of the program look     *)
(* into ("BEGIN", "VEVENT", "SUMMARY", "Saturday", ...).                   *)
(***************************************************************************)
EXTENDS Integers, Sequences, FiniteSets, TLC

(***************************************************************************)
(* Strings                                                                 *)
(***************************************************************************)
DEFAULT_TIMEZONE == <<"America/Los_Angeles">>

Digits == <<"0", "1", "2", "3", "4", "5", "6", "7", "8", "9">>

IsDigit(c) == \E i \in 1..Len(Digits) : Digits[i] = c

DigitVal(c) == (CHOOSE i \in 1..Len(Digits) : Digits[i] = c) - 1

DigitChar(n) == Digits[n + 1]

\* "%02d" and "%04d" as strftime writes them
Pad2(n) == <<DigitChar((n \div 10) % 10), DigitChar(n % 10)>>

Pad4(n) == Pad2(n \div 100) \o Pad2(n % 100)

\* the number written by the digits s[i..j]
RECURSIVE NumAt(_, _, _)
NumAt(s, i, j) ==
    IF j < i THEN 0 ELSE 10 * NumAt(s, i, j - 1) + DigitVal(s[j])

AllDigits(s, i, j) == \A n \in i..j : IsDigit(s[n])

\* str.startswith(prefix), for a prefix that is one piece
StartsWith(s, prefix) == Len(s) >= 1 /\ s[1] = prefix

\* `piece in s`, for a substring that is one piece
Contains(s, piece) == \E i \in 1..Len(s) : s[i] = piece

\* str.lstrip(c): drop every leading piece c
RECURSIVE LStrip(_, _)
LStrip(s, c) ==
    IF Len(s) >= 1 /\ s[1] = c THEN LStrip(Tail(s), c) ELSE s

\* str.rstrip(c) and str.strip() on the whitespace piece
RECURSIVE RStrip(_, _)
RStrip(s, c) ==
    IF Len(s) >= 1 /\ s[Len(s)] = c
    THEN RStrip(SubSeq(s, 1, Len(s) - 1), c)
    ELSE s

Strip(s) == RStrip(LStrip(s, " "), " ")

(***************************************************************************)
(* Dates and times (datetime.date, datetime.datetime)                      *)
(***************************************************************************)
IsLeap(y) == (y % 4 = 0 /\ y % 100 # 0) \/ y % 400 = 0

DaysInMonth(y, m) ==
    IF m = 2 THEN (IF IsLeap(y) THEN 29 ELSE 28)
    ELSE IF m \in {4, 6, 9, 11} THEN 30 ELSE 31

\* date + timedelta(days=1)
NextDay(dte) ==
    IF dte.d < DaysInMonth(dte.y, dte.mo)
    THEN [y |-> dte.y, mo |-> dte.mo, d |-> dte.d + 1]
    ELSE IF dte.mo < 12
         THEN [y |-> dte.y, mo |-> dte.mo + 1, d |-> 1]
         ELSE [y |-> dte.y + 1, mo |-> 1, d |-> 1]

\* datetime.date(): the calendar day of a datetime
DateOf(dt) == [y |-> dt.y, mo |-> dt.mo, d |-> dt.d]

\* date.weekday(): 0 is Monday (Sakamoto's method, shifted)
MonthShift == <<0, 3, 2, 5, 0, 3, 5, 1, 4, 6, 2, 4>>

Weekday(dte) ==
    LET yy == IF dte.mo < 3 THEN dte.y - 1 ELSE dte.y
        sun0 == (yy + yy \div 4 - yy \div 100 + yy \div 400
                 + MonthShift[dte.mo] + dte.d) % 7
    IN  (sun0 + 6) % 7

WeekdayNames ==
    <<"Monday", "Tuesday", "Wednesday", "Thursday", "Friday", "Saturday",
      "Sunday">>

MonthNames ==
    <<"January", "February", "March", "April", "May", "June", "July",
      "August", "September", "October", "November", "December">>

\* date.strftime("%A, %B %d")
FormatDate(dte) ==
    <<WeekdayNames[Weekday(dte) + 1], ",", " ", MonthNames[dte.mo], " ">>
        \o Pad2(dte.d)

\* datetime.strftime("%I:%M %p")
StrfTime12(dt) ==
    LET h12 == IF dt.h % 12 = 0 THEN 12 ELSE dt.h % 12
    IN  Pad2(h12) \o <<":">> \o Pad2(dt.mi)
            \o <<" ", IF dt.h < 12 THEN "AM" ELSE "PM">>

\* the time as it would be written without lstrip("0")
FormatTime_NoStrip(dt) == StrfTime12(dt)

\* event["start"].strftime("%I:%M %p").lstrip("0")
FormatTime(dt) == LStrip(StrfTime12(dt), "0")

\* the order of two datetimes of the same zone: a < b
DtBefore(a, b) ==
    LET ka == <<a.y, a.mo, a.d, a.h, a.mi, a.s>>
        kb == <<b.y, b.mo, b.d, b.h, b.mi, b.s>>
    IN  \E i \in 1..6 : ka[i] < kb[i] /\ \A j \in 1..(i - 1) : ka[j] = kb[j]

\* datetime.strptime(val, "%Y%m%dT%H%M%S").replace(tzinfo=...) on the values
\* the model feeds it: fifteen pieces (YYYYMMDDTHHMMSS, digits possibly out of
\* range), a date-only value, or a value with a trailing "Z". The zone is
\* always DEFAULT_TIMEZONE, so it is not carried in the value.
parse_dt(val) ==
    IF /\ Len(val) = 15
       /\ AllDigits(val, 1, 8)
       /\ val[9] = "T"
       /\ AllDigits(val, 10, 15)
       /\ NumAt(val, 1, 4) >= 1
       /\ NumAt(val, 5, 6) \in 1..12
       /\ NumAt(val, 7, 8) \in 1..DaysInMonth(NumAt(val, 1, 4), NumAt(val, 5, 6))
       /\ NumAt(val, 10, 11) <= 23
       /\ NumAt(val, 12, 13) <= 59
       /\ NumAt(val, 14, 15) <= 59
    THEN [ok |-> TRUE,
          dt |-> [y |-> NumAt(val, 1, 4), mo |-> NumAt(val, 5, 6),
                  d |-> NumAt(val, 7, 8), h |-> NumAt(val, 10, 11),
                  mi |-> NumAt(val, 12, 13), s |-> NumAt(val, 14, 15)]]
    ELSE [ok |-> FALSE, dt |-> [y |-> 0, mo |-> 0, d |-> 0, h |-> 0,
                                mi |-> 0, s |-> 0]]

(***************************************************************************)
(* dict: insertion-ordered, as a sequence of [k, v] entries with distinct  *)
(* keys                                                                    *)
(***************************************************************************)
DictKeys(items) == [i \in 1..Len(items) |-> items[i].k]

DictHas(items, key) == \E i \in 1..Len(items) : items[i].k = key

\* items[key], for a key that is present
DictGet(items, key) ==
    items[CHOOSE i \in 1..Len(items) : items[i].k = key].v

\* items[key] = val: a present key keeps its place, a new one goes last
DictPut(items, key, val) ==
    IF DictHas(items, key)
    THEN [i \in 1..Len(items) |->
            IF items[i].k = key THEN [k |-> key, v |-> val] ELSE items[i]]
    ELSE Append(items, [k |-> key, v |-> val])

(***************************************************************************)
(* parse_events: the ICS event extractor. A text is the sequence of its    *)
(* lines (str.splitlines), a line a sequence of pieces.                    *)
(***************************************************************************)
BEGIN_VEVENT == <<"BEGIN", ":", "VEVENT">>

END_VEVENT == <<"END", ":", "VEVENT">>

\* the place of the first ":" of a line that has one
FirstColon(line) ==
    CHOOSE i \in 1..Len(line) :
        line[i] = ":" /\ \A j \in 1..(i - 1) : line[j] # ":"

\* line.split(":", 1)
SplitKey(line) == SubSeq(line, 1, FirstColon(line) - 1)

SplitVal(line) == SubSeq(line, FirstColon(line) + 1, Len(line))

\* The loop's state: events (each a dict object [oid, items]), current,
\* in_event, and nobj, the number of dict objects created so far.
ExtractInit ==
    [events |-> <<>>, current |-> [oid |-> 0, items |-> <<>>],
     in_event |-> FALSE, nobj |-> 1]

\* the loop body as it would be if END:VEVENT dropped an empty record
ExtractLine_DropsEmpty(st, raw) ==
    LET line == Strip(raw)
    IN  IF line = BEGIN_VEVENT
        THEN [st EXCEPT !.in_event = TRUE,
                        !.current = [oid |-> st.nobj, items |-> <<>>],
                        !.nobj = st.nobj + 1]
        ELSE IF line = END_VEVENT
        THEN [st EXCEPT !.in_event = FALSE,
                        !.events = IF st.current.items = <<>> THEN st.events
                                   ELSE Append(st.events, st.current)]
        ELSE IF ~st.in_event
        THEN st
        ELSE IF Contains(line, ":")
        THEN [st EXCEPT !.current.items =
                DictPut(st.current.items, SplitKey(line), SplitVal(line))]
        ELSE st

\* the loop body as it would be if BEGIN:VEVENT kept the dict of a block
\* that is still open
ExtractLine_KeepsOpen(st, raw) ==
    LET line == Strip(raw)
    IN  IF line = BEGIN_VEVENT
        THEN IF st.in_event THEN st
             ELSE [st EXCEPT !.in_event = TRUE,
                             !.current = [oid |-> st.nobj, items |-> <<>>],
                             !.nobj = st.nobj + 1]
        ELSE IF line = END_VEVENT
        THEN [st EXCEPT !.in_event = FALSE,
                        !.events = Append(st.events, st.current)]
        ELSE IF ~st.in_event
        THEN st
        ELSE IF Contains(line, ":")
        THEN [st EXCEPT !.current.items =
                DictPut(st.current.items, SplitKey(line), SplitVal(line))]
        ELSE st

\* one iteration of the loop over the lines
ExtractLine(st, raw) ==
    LET line == Strip(raw)
    IN  IF line = BEGIN_VEVENT
        THEN [st EXCEPT !.in_event = TRUE,
                        !.current = [oid |-> st.nobj, items |-> <<>>],
                        !.nobj = st.nobj + 1]
        ELSE IF line = END_VEVENT
        THEN [st EXCEPT !.in_event = FALSE,
                        !.events = Append(st.events, st.current)]
        ELSE IF ~st.in_event
        THEN st
        ELSE IF Contains(line, ":")
        THEN [st EXCEPT !.current.items =
                DictPut(st.current.items, SplitKey(line), SplitVal(line))]
        ELSE st

RECURSIVE ExtractUpTo(_, _)
ExtractUpTo(text, n) ==
    IF n = 0 THEN ExtractInit
    ELSE ExtractLine(ExtractUpTo(text, n - 1), text[n])

parse_events(ics_text) == ExtractUpTo(ics_text, Len(ics_text)).events

(***************************************************************************)
(* parse_webcal: the event normalizer                                      *)
(***************************************************************************)
NoEvent ==
    LET z == [y |-> 0, mo |-> 0, d |-> 0, h |-> 0, mi |-> 0, s |-> 0]
    IN  [start |-> z, end |-> z, summary |-> <<>>]

IsStartKey(k) == StartsWith(k, "DTSTART")

IsEndKey(k) == StartsWith(k, "DTEND")

\* the all-day test as it would be if it looked at the start key only
IsAllDay_StartOnly(start_key, end_key) == Contains(start_key, "VALUE=DATE")

\* "VALUE=DATE" in start_key or "VALUE=DATE" in end_key
IsAllDay(start_key, end_key) ==
    Contains(start_key, "VALUE=DATE") \/ Contains(end_key, "VALUE=DATE")

\* what logging.info("Skipping all-day event: %s", item["SUMMARY"]) needs
SkipLogRaises(items) == ~DictHas(items, <<"SUMMARY">>)

\* the loop body as it would be if the all-day test came before the lookup
\* of the two keys
NormalizeItem_AllDayFirst(items) ==
    LET keys == DictKeys(items)
        starts == SelectSeq(keys, IsStartKey)
        ends == SelectSeq(keys, IsEndKey)
        Raise(e) == [kind |-> "raise", err |-> e, event |-> NoEvent]
        dated == \E n \in 1..Len(keys) :
                    /\ IsStartKey(keys[n]) \/ IsEndKey(keys[n])
                    /\ Contains(keys[n], "VALUE=DATE")
    IN  IF dated
        THEN IF SkipLogRaises(items) THEN Raise("KeyError")
             ELSE [kind |-> "skip", err |-> "", event |-> NoEvent]
        ELSE IF Len(starts) = 0 \/ Len(ends) = 0 THEN Raise("IndexError")
        ELSE LET s == parse_dt(DictGet(items, starts[1]))
                 e == parse_dt(DictGet(items, ends[1]))
             IN  IF ~s.ok \/ ~e.ok THEN Raise("ValueError")
                 ELSE [kind |-> "event", err |-> "",
                       event |-> [start |-> s.dt, end |-> e.dt,
                                  summary |->
                                    IF DictHas(items, <<"SUMMARY">>)
                                    THEN DictGet(items, <<"SUMMARY">>)
                                    ELSE <<"No Summary">>]]

\* The body of the loop for one item: "event" (appended), "skip" (continue)
\* or "raise" with the exception that leaves parse_webcal.
NormalizeItem(items) ==
    LET keys == DictKeys(items)
        starts == SelectSeq(keys, IsStartKey)
        ends == SelectSeq(keys, IsEndKey)
        Raise(e) == [kind |-> "raise", err |-> e, event |-> NoEvent]
    IN  IF Len(starts) = 0 \/ Len(ends) = 0 THEN Raise("IndexError")
        ELSE IF IsAllDay(starts[1], ends[1])
        THEN IF SkipLogRaises(items) THEN Raise("KeyError")
             ELSE [kind |-> "skip", err |-> "", event |-> NoEvent]
        ELSE LET s == parse_dt(DictGet(items, starts[1]))
                 e == parse_dt(DictGet(items, ends[1]))
             IN  IF ~s.ok \/ ~e.ok THEN Raise("ValueError")
                 ELSE [kind |-> "event", err |-> "",
                       event |-> [start |-> s.dt, end |-> e.dt,
                                  summary |->
                                    IF DictHas(items, <<"SUMMARY">>)
                                    THEN DictGet(items, <<"SUMMARY">>)
                                    ELSE <<"No Summary">>]]

\* the loop over data: [ok, err, events] after the first n items
RECURSIVE NormalizeUpTo(_, _)
NormalizeUpTo(data, n) ==
    IF n = 0 THEN [ok |-> TRUE, err |-> "", events |-> <<>>]
    ELSE LET before == NormalizeUpTo(data, n - 1)
             r == NormalizeItem(data[n].items)
         IN  IF ~before.ok THEN before
             ELSE IF r.kind = "raise"
             THEN [ok |-> FALSE, err |-> r.err, events |-> <<>>]
             ELSE IF r.kind = "skip" THEN before
             ELSE [before EXCEPT !.events = Append(before.events, r.event)]

NormalizeAll(data) == NormalizeUpTo(data, Len(data))

\* get_ics: response.raise_for_status() raises on a 4xx or 5xx status
get_ics(response) ==
    IF response.status >= 400 /\ response.status < 600
    THEN [ok |-> FALSE, err |-> "HTTPError", text |-> <<>>]
    ELSE [ok |-> TRUE, err |-> "", text |-> response.text]

\* parse_webcal(calendar_url), given what the URL answers
parse_webcal(response) ==
    LET got == get_ics(response)
    IN  IF ~got.ok THEN [ok |-> FALSE, err |-> got.err, events |-> <<>>]
        ELSE NormalizeAll(parse_events(got.text))

(***************************************************************************)
(* JSON values: what json.dump writes and json.load returns. A dict is     *)
(* [t |-> "dict", v |-> entries in insertion order], a list                *)
(* [t |-> "list", v |-> items], a string [t |-> "str", v |-> pieces], an   *)
(* integer [t |-> "int", v |-> n].                                         *)
(***************************************************************************)
JStr(s) == [t |-> "str", v |-> s]

JInt(n) == [t |-> "int", v |-> n]

JList(items) == [t |-> "list", v |-> items]

JDict(entries) == [t |-> "dict", v |-> entries]

\* the empty mapping {}
JEmpty == JDict(<<>>)

\* The keys the program writes, in str order (what sort_keys=True sorts by).
SortedKeys ==
    <<"date", "end", "events", "merge_variables", "start", "summary",
      "timezone", "today", "tomorrow", "year">>

KeyRank(key) == CHOOSE i \in 1..Len(SortedKeys) : SortedKeys[i] = key[1]

\* entries with e put before the first entry whose key is greater
InsertByKey(entries, e) ==
    LET n == Cardinality({i \in 1..Len(entries) :
                            KeyRank(entries[i].k) <= KeyRank(e.k)})
    IN  SubSeq(entries, 1, n) \o <<e>> \o SubSeq(entries, n + 1, Len(entries))

RECURSIVE SortEntries(_, _)
SortEntries(entries, n) ==
    IF n = 0 THEN <<>>
    ELSE InsertByKey(SortEntries(entries, n - 1), entries[n])

\* the value with the entries of every dict in key order
RECURSIVE SortKeys(_)
SortKeys(j) ==
    IF j.t = "dict"
    THEN JDict(SortEntries(
            [i \in 1..Len(j.v) |-> [k |-> j.v[i].k, v |-> SortKeys(j.v[i].v)]],
            Len(j.v)))
    ELSE IF j.t = "list"
    THEN JList([i \in 1..Len(j.v) |-> SortKeys(j.v[i])])
    ELSE j

\* A JSON document is the sequence of its tokens; the white space between
\* them (indent=2) is not a token.
Punct(c) == [t |-> "punct", v |-> <<c>>]

RECURSIVE IntDigits(_)
IntDigits(n) ==
    IF n < 10 THEN <<DigitChar(n)>>
    ELSE Append(IntDigits(n \div 10), DigitChar(n % 10))

RECURSIVE Serialize(_)
RECURSIVE SerializeItems(_, _)
RECURSIVE SerializeEntries(_, _)
\* the first n items of a list, comma-separated
SerializeItems(items, n) ==
    IF n = 0 THEN <<>>
    ELSE SerializeItems(items, n - 1)
            \o (IF n > 1 THEN <<Punct(",")>> ELSE <<>>)
            \o Serialize(items[n])

\* the first n entries of a dict, comma-separated
SerializeEntries(entries, n) ==
    IF n = 0 THEN <<>>
    ELSE SerializeEntries(entries, n - 1)
            \o (IF n > 1 THEN <<Punct(",")>> ELSE <<>>)
            \o <<[t |-> "str", v |-> entries[n].k], Punct(":")>>
            \o Serialize(entries[n].v)

\* json.dumps(j) / json.dump(j, f)
Serialize(j) ==
    IF j.t = "dict"
    THEN <<Punct("{")>> \o SerializeEntries(j.v, Len(j.v)) \o <<Punct("}")>>
    ELSE IF j.t = "list"
    THEN <<Punct("[")>> \o SerializeItems(j.v, Len(j.v)) \o <<Punct("]")>>
    ELSE IF j.t = "int"
    THEN <<[t |-> "num", v |-> IntDigits(j.v)]>>
    ELSE <<[t |-> "str", v |-> j.v]>>

\* json.load: a recursive-descent parse of the tokens from place i on;
\* [ok, val, next], ok false where json raises JSONDecodeError
ParseFail == [ok |-> FALSE, val |-> JEmpty, next |-> 0]

IsPunct(toks, i, c) == i <= Len(toks) /\ toks[i] = Punct(c)

RECURSIVE ParseValue(_, _)
RECURSIVE ParseItems(_, _, _)
RECURSIVE ParseEntries(_, _, _)
\* the items of a list after "[" or ",": a value, then "," or "]"
ParseItems(toks, i, acc) ==
    LET r == ParseValue(toks, i)
    IN  IF ~r.ok THEN ParseFail
        ELSE IF IsPunct(toks, r.next, ",")
        THEN ParseItems(toks, r.next + 1, Append(acc, r.val))
        ELSE IF IsPunct(toks, r.next, "]")
        THEN [ok |-> TRUE, val |-> JList(Append(acc, r.val)),
              next |-> r.next + 1]
        ELSE ParseFail

\* the entries of a dict after "{" or ",": a string, ":", a value, then
\* "," or "}"
ParseEntries(toks, i, acc) ==
    IF ~(i + 1 <= Len(toks) /\ toks[i].t = "str" /\ toks[i + 1] = Punct(":"))
    THEN ParseFail
    ELSE LET r == ParseValue(toks, i + 2)
         IN  IF ~r.ok THEN ParseFail
             ELSE IF IsPunct(toks, r.next, ",")
             THEN ParseEntries(toks, r.next + 1,
                               DictPut(acc, toks[i].v, r.val))
             ELSE IF IsPunct(toks, r.next, "}")
             THEN [ok |-> TRUE, val |-> JDict(DictPut(acc, toks[i].v, r.val)),
                   next |-> r.next + 1]
             ELSE ParseFail

ParseValue(toks, i) ==
    IF i > Len(toks) THEN ParseFail
    ELSE IF toks[i].t = "str"
    THEN [ok |-> TRUE, val |-> JStr(toks[i].v), next |-> i + 1]
    ELSE IF toks[i].t = "num"
    THEN [ok |-> TRUE, val |-> JInt(NumAt(toks[i].v, 1, Len(toks[i].v))),
          next |-> i + 1]
    ELSE IF toks[i] = Punct("[")
    THEN IF IsPunct(toks, i + 1, "]")
         THEN [ok |-> TRUE, val |-> JList(<<>>), next |-> i + 2]
         ELSE ParseItems(toks, i + 1, <<>>)
    ELSE IF toks[i] = Punct("{")
    THEN IF IsPunct(toks, i + 1, "}")
         THEN [ok |-> TRUE, val |-> JEmpty, next |-> i + 2]
         ELSE ParseEntries(toks, i + 1, <<>>)
    ELSE ParseFail

\* json.load(f): one value and nothing after it
JsonLoad(toks) ==
    LET r == ParseValue(toks, 1)
    IN  IF r.ok /\ r.next = Len(toks) + 1 THEN r ELSE ParseFail

(***************************************************************************)
(* build_payload: the payload builder                                      *)
(***************************************************************************)
\* data = {"start": start, "end": end, "summary": event["summary"]}
EventView(event) ==
    JDict(<<[k |-> <<"start">>, v |-> JStr(FormatTime(event.start))],
            [k |-> <<"end">>, v |-> JStr(FormatTime(event.end))],
            [k |-> <<"summary">>, v |-> JStr(event.summary)]>>)

\* day_key of one event
DayKey(event, today_date) ==
    IF DateOf(event.start) = today_date THEN "today" ELSE "tomorrow"

\* the loop over keep_events: the two events lists after the first n events
RECURSIVE BucketsUpTo(_, _, _)
BucketsUpTo(keep_events, n, today_date) ==
    IF n = 0 THEN [today |-> <<>>, tomorrow |-> <<>>]
    ELSE LET b == BucketsUpTo(keep_events, n - 1, today_date)
             e == keep_events[n]
         IN  IF DayKey(e, today_date) = "today"
             THEN [b EXCEPT !.today = Append(b.today, EventView(e))]
             ELSE [b EXCEPT !.tomorrow = Append(b.tomorrow, EventView(e))]

\* a bucket as it would be without the year
DayBucket_NoYear(dte, events) ==
    JDict(<<[k |-> <<"date">>, v |-> JStr(FormatDate(dte))],
            [k |-> <<"timezone">>, v |-> JStr(DEFAULT_TIMEZONE)],
            [k |-> <<"events">>, v |-> JList(events)]>>)

DayBucket(dte, events) ==
    JDict(<<[k |-> <<"date">>, v |-> JStr(FormatDate(dte))],
            [k |-> <<"year">>, v |-> JInt(dte.y)],
            [k |-> <<"timezone">>, v |-> JStr(DEFAULT_TIMEZONE)],
            [k |-> <<"events">>, v |-> JList(events)]>>)

build_payload(keep_events, today_date, tomorrow_date) ==
    LET b == BucketsUpTo(keep_events, Len(keep_events), today_date)
    IN  JDict(<<[k |-> <<"today">>, v |-> DayBucket(today_date, b.today)],
                [k |-> <<"tomorrow">>,
                 v |-> DayBucket(tomorrow_date, b.tomorrow)]>>)

(***************************************************************************)
(* The change detector and the persisted state                             *)
(***************************************************************************)
\* payload_checksum as it would be without sort_keys=True
payload_checksum_Unsorted(payload) == Serialize(payload)

\* payload_checksum: md5 of json.dumps(payload, sort_keys=True). The digest
\* is modelled by the serialization it is taken of (two digests are equal
\* exactly when the serializations are).
payload_checksum(payload) == Serialize(SortKeys(payload))

\* calendar_payload.json: absent, or the tokens it holds
NoFile == [exists |-> FALSE, toks |-> <<>>]

\* save_payload as it would be if it wrote the body of the POST
save_payload_PostBody(payload) ==
    [exists |-> TRUE,
     toks |-> Serialize(JDict(<<[k |-> <<"merge_variables">>,
                                 v |-> payload]>>))]

\* save_payload: open(filename, "w") and json.dump(payload, f, indent=2)
save_payload(payload) == [exists |-> TRUE, toks |-> Serialize(payload)]

\* load_payload as it would be without the except clause
load_payload_NoExcept(f) ==
    IF ~f.exists
    THEN [ok |-> FALSE, err |-> "FileNotFoundError", payload |-> JEmpty]
    ELSE LET r == JsonLoad(f.toks)
         IN  IF r.ok THEN [ok |-> TRUE, err |-> "", payload |-> r.val]
             ELSE [ok |-> FALSE, err |-> "JSONDecodeError",
                   payload |-> JEmpty]

\* load_payload: FileNotFoundError gives {}, any other exception leaves it
load_payload(f) ==
    IF ~f.exists THEN [ok |-> TRUE, err |-> "", payload |-> JEmpty]
    ELSE LET r == JsonLoad(f.toks)
         IN  IF r.ok THEN [ok |-> TRUE, err |-> "", payload |-> r.val]
             ELSE [ok |-> FALSE, err |-> "JSONDecodeError",
                   payload |-> JEmpty]

(***************************************************************************)
(* main: the filter and the sort                                           *)
(***************************************************************************)
\* the filter as it would be if it let every event through
Keeps_AnyDate(event, today_date, tomorrow_date) == TRUE

\* if event["start"].date() in [today_date, tomorrow_date]
Keeps(event, today_date, tomorrow_date) ==
    DateOf(event.start) \in {today_date, tomorrow_date}

RECURSIVE KeepUpTo(_, _, _, _)
KeepUpTo(events, n, today_date, tomorrow_date) ==
    IF n = 0 THEN <<>>
    ELSE LET before == KeepUpTo(events, n - 1, today_date, tomorrow_date)
         IN  IF Keeps(events[n], today_date, tomorrow_date)
             THEN Append(before, events[n])
             ELSE before

\* the sort as it would be if it were not stable: an event goes before the
\* events already placed that start when it does
InsertByStart_BeforeEqual(sorted, e) ==
    LET n == Cardinality({i \in 1..Len(sorted) :
                            DtBefore(sorted[i].start, e.start)})
    IN  SubSeq(sorted, 1, n) \o <<e>> \o SubSeq(sorted, n + 1, Len(sorted))

\* list.sort(key=lambda e: e["start"]): stable, ascending. An event goes
\* after every event already placed that does not start later.
InsertByStart(sorted, e) ==
    LET n == Cardinality({i \in 1..Len(sorted) :
                            ~DtBefore(e.start, sorted[i].start)})
    IN  SubSeq(sorted, 1, n) \o <<e>> \o SubSeq(sorted, n + 1, Len(sorted))

RECURSIVE SortByStart(_, _)
SortByStart(events, n) ==
    IF n = 0 THEN <<>>
    ELSE InsertByStart(SortByStart(events, n - 1), events[n])

(***************************************************************************)
(* The inputs of the model: calendar days, ICS lines, what the calendar    *)
(* URLs answer, what the webhook answers                                   *)
(***************************************************************************)
MaxCalendars == 2

Day(y, mo, d) == [y |-> y, mo |-> mo, d |-> d]

\* the days a run can take place on
RunDays == {Day(2026, 1, 3), Day(2026, 1, 4)}

\* YYYYMMDD and YYYYMMDDTHHMMSS as an ICS feed writes them
DateText(y, mo, d) == Pad4(y) \o Pad2(mo) \o Pad2(d)

TimeText(y, mo, d, h, mi) ==
    DateText(y, mo, d) \o <<"T">> \o Pad2(h) \o Pad2(mi) \o Pad2(0)

PropLine(key, val) == key \o <<":">> \o val

TzParam == <<";", "TZID=America/Los_Angeles">>

DateParam == <<";", "VALUE=DATE">>

\* a timed event as Apple's webcal writes it (DTEND before DTSTART)
TimedLines(d, h1, m1, h2, m2, summary) ==
    <<BEGIN_VEVENT,
      PropLine(<<"DTEND">> \o TzParam, TimeText(2026, 1, d, h2, m2)),
      PropLine(<<"DTSTART">> \o TzParam, TimeText(2026, 1, d, h1, m1)),
      PropLine(<<"UID">>, <<"ASDF-AB9C">>),
      <<"X-NO-COLON">>>>
    \o (IF summary = <<>> THEN <<>> ELSE <<PropLine(<<"SUMMARY">>, summary)>>)
    \o <<<<" ">> \o END_VEVENT>>

AllDayLines(d, summary) ==
    <<BEGIN_VEVENT,
      PropLine(<<"DTSTART">> \o DateParam, DateText(2026, 1, d)),
      PropLine(<<"DTEND">> \o DateParam, DateText(2026, 1, d + 1))>>
    \o (IF summary = <<>> THEN <<>> ELSE <<PropLine(<<"SUMMARY">>, summary)>>)
    \o <<END_VEVENT>>

Calendar(lines) ==
    <<<<"BEGIN", ":", "VCALENDAR">>>> \o lines \o <<<<"END", ":", "VCALENDAR">>>>

\* What a calendar URL can answer. 1 and 2 parse; 3 lacks DTEND, 4 is an
\* HTTP error, 5 has a date-only DTSTART without VALUE=DATE, 6 an all-day
\* event without SUMMARY.
Feeds ==
    <<[status |-> 200,
       text |-> Calendar(TimedLines(3, 12, 30, 13, 15, <<"Example">>)
                         \o AllDayLines(3, <<"Holiday">>)
                         \o TimedLines(5, 8, 0, 9, 0, <<"Later">>))],
      [status |-> 200,
       text |-> Calendar(TimedLines(4, 9, 5, 10, 0, <<>>)
                         \o TimedLines(3, 12, 30, 14, 0, <<"Lunch">>)
                         \o TimedLines(3, 0, 0, 0, 30, <<"Night">>))],
      [status |-> 200,
       text |-> Calendar(<<BEGIN_VEVENT,
                           PropLine(<<"DTSTART">>, TimeText(2026, 1, 3, 7, 0)),
                           END_VEVENT>>)],
      [status |-> 404, text |-> <<>>],
      [status |-> 200,
       text |-> Calendar(<<BEGIN_VEVENT,
                           PropLine(<<"DTSTART">>, DateText(2026, 1, 3)),
                           PropLine(<<"DTEND">>, DateText(2026, 1, 4)),
                           END_VEVENT>>)],
      [status |-> 200,
       text |-> Calendar(AllDayLines(3, <<>>))]>>

FeedIds == 1..Len(Feeds)

\* parse_webcal of each answer
Parsed == [f \in FeedIds |-> parse_webcal(Feeds[f])]

\* the status codes the webhook can answer with
Statuses == {200, 201, 500}

\* where a kill during save_payload can leave a file of n tokens
CutPoints(n) == {0, 1, n \div 2, n - 1}

(***************************************************************************)
(* The run (main), one run after another                                   *)
(***************************************************************************)
VARIABLES
    file,              \* calendar_payload.json
    pc,                \* where the run is: "idle", "fetch", "detect",
                       \* "post", "save", "done", "aborted", "killed"
    dry_run, force_update,
    today_date,
    ncal,              \* len(config["CALENDAR_URLS"])
    idx,               \* calendar URLs parsed so far
    keep_events,
    payload,
    previous_payload,
    changed,           \* the run logged "Payload has changed."
    posts,             \* the webhook POSTs of this run: [status, raised]
    err,               \* the exception that ended the run, "" if none
    srcs,              \* history: the answers (FeedIds) the URLs gave
    fileAtStart,       \* history: file when the run began
    lastFail,          \* history: the run before, if its POST was refused
    persisted          \* history: the run that wrote file

\* The normalizer followed item by item (parse_webcal's loop)
VARIABLES
    nData,             \* data = parse_events(text)
    nIdx,              \* items of data the loop is done with
    nOut,              \* events
    nFrom,             \* history: for each event, the place of its item
    nPc,               \* "off", "loop", "returned", "raised"
    nErr               \* the exception raised, "" if none

nvars == <<nData, nIdx, nOut, nFrom, nPc, nErr>>

\* The extractor followed line by line (parse_events' loop)
VARIABLES
    xText,             \* ics_text.splitlines()
    xPos,              \* lines the loop is done with
    xSt,               \* events, current, in_event (and nobj)
    xDropped,          \* history: the dict objects a BEGIN:VEVENT line
                       \* replaced while their block was open
    xPc                \* "off", "loop", "returned"

xvars == <<xText, xPos, xSt, xDropped, xPc>>

\* The time format applied to one time of day
VARIABLES
    tH, tM,            \* the hour and the minute of the event time
    tOut,              \* what build_payload writes for it
    tPc                \* "off", "call", "done"

tvars == <<tH, tM, tOut, tPc>>

\* The change detector applied to two payloads
VARIABLES
    gArgs,             \* today of this run and of the run that saved the
                       \* file, force_update, dry_run
    gNew,              \* the payload built
    gSame,             \* gNew with mapping keys in another order, 3 ways
    gPrev,             \* the payload loaded
    gSums,             \* the fingerprints of gNew, gPrev and each of gSame
    gChanged,          \* the test of main on gNew and gPrev
    gBranch,           \* the branch main takes
    gPc                \* "off", "call", "done"

gvars == <<gArgs, gNew, gSame, gPrev, gSums, gChanged, gBranch, gPc>>

\* the variables of the three above
pvars == <<xvars, tvars, gvars>>

mvars ==
    <<file, pc, dry_run, force_update, today_date, ncal, idx, keep_events,
      payload, previous_payload, changed, posts, err, srcs, fileAtStart,
      lastFail, persisted>>

vars == <<mvars, nvars, pvars>>

NoRun == [set |-> FALSE, srcs |-> <<>>, today |-> Day(0, 0, 0), ok |-> FALSE,
          fresh |-> FALSE]

InitMain ==
    /\ file = NoFile
    /\ pc = "idle"
    /\ dry_run = TRUE
    /\ force_update = FALSE
    /\ today_date = Day(2026, 1, 3)
    /\ ncal = 0
    /\ idx = 0
    /\ keep_events = <<>>
    /\ payload = JEmpty
    /\ previous_payload = JEmpty
    /\ changed = FALSE
    /\ posts = <<>>
    /\ err = ""
    /\ srcs = <<>>
    /\ fileAtStart = NoFile
    /\ lastFail = NoRun
    /\ persisted = NoRun

NormalizerOff ==
    /\ nData = <<>>
    /\ nIdx = 0
    /\ nOut = <<>>
    /\ nFrom = <<>>
    /\ nPc = "off"
    /\ nErr = ""

ExtractorOff ==
    /\ xText = <<>>
    /\ xPos = 0
    /\ xSt = ExtractInit
    /\ xDropped = {}
    /\ xPc = "off"

FormatOff ==
    /\ tH = 0
    /\ tM = 0
    /\ tOut = <<>>
    /\ tPc = "off"

DetectorOff ==
    /\ gArgs = [today |-> Day(0, 0, 0), prevToday |-> Day(0, 0, 0),
                force |-> FALSE, dry |-> FALSE]
    /\ gNew = JEmpty
    /\ gSame = <<>>
    /\ gPrev = JEmpty
    /\ gSums = <<>>
    /\ gChanged = FALSE
    /\ gBranch = ""
    /\ gPc = "off"

Init == InitMain /\ NormalizerOff /\ ExtractorOff /\ FormatOff /\ DetectorOff

tomorrow_date == NextDay(today_date)

\* the POST of this run got a response, and it was not 200
PostRefused == Len(posts) = 1 /\ ~posts[1].raised /\ posts[1].status # 200

\* main is entered: the arguments, the clock and the configuration
StartRun ==
    /\ pc = "idle"
    /\ \E d \in BOOLEAN, f \in BOOLEAN, t \in RunDays, n \in 0..MaxCalendars :
        /\ dry_run' = d
        /\ force_update' = f
        /\ today_date' = t
        /\ ncal' = n
    /\ pc' = "fetch"
    /\ idx' = 0
    /\ keep_events' = <<>>
    /\ payload' = JEmpty
    /\ previous_payload' = JEmpty
    /\ changed' = FALSE
    /\ posts' = <<>>
    /\ err' = ""
    /\ srcs' = <<>>
    /\ fileAtStart' = file
    /\ UNCHANGED <<file, lastFail, persisted, nvars, pvars>>

\* main as it would be if it caught the exception and went on
AfterSource_GoesOn(ok) == "fetch"

\* an exception raised by parse_webcal leaves main: what main does next
AfterSource(ok) == IF ok THEN "fetch" ELSE "aborted"

\* one iteration of the loop over config["CALENDAR_URLS"]
FetchCalendar ==
    /\ pc = "fetch"
    /\ idx < ncal
    /\ \E f \in FeedIds :
        LET r == Parsed[f]
        IN  /\ srcs' = Append(srcs, f)
            /\ pc' = AfterSource(r.ok)
            /\ err' = r.err
            /\ keep_events' =
                   keep_events \o KeepUpTo(r.events, Len(r.events),
                                           today_date, tomorrow_date)
    /\ idx' = idx + 1
    /\ UNCHANGED <<file, dry_run, force_update, today_date, ncal, payload,
                   previous_payload, changed, posts, fileAtStart, lastFail,
                   persisted, nvars, pvars>>

\* keep_events.sort, build_payload, load_payload
BuildAndLoad ==
    /\ pc = "fetch"
    /\ idx = ncal
    /\ LET sorted == SortByStart(keep_events, Len(keep_events))
           lp == load_payload(file)
       IN  /\ keep_events' = sorted
           /\ payload' = build_payload(sorted, today_date, tomorrow_date)
           /\ previous_payload' = lp.payload
           /\ err' = lp.err
           /\ pc' = IF lp.ok THEN "detect" ELSE "aborted"
    /\ UNCHANGED <<file, dry_run, force_update, today_date, ncal, idx,
                   changed, posts, srcs, fileAtStart, lastFail, persisted,
                   nvars, pvars>>

\* the test as it would be without force_update
IsChanged_NoForce(force, new, previous) ==
    payload_checksum(new) # payload_checksum(previous)

\* if force_update or payload_checksum(payload) != payload_checksum(previous)
IsChanged(force, new, previous) ==
    force \/ payload_checksum(new) # payload_checksum(previous)

\* the branch as it would be without the dry_run test
Branch_NoDryRun(is_changed, dry) == IF is_changed THEN "post" ELSE "done"

\* the branch taken: "post" is upload_calendar_json and save_payload
Branch(is_changed, dry) ==
    IF is_changed THEN (IF dry THEN "done" ELSE "post") ELSE "done"

Detect ==
    /\ pc = "detect"
    /\ changed' = IsChanged(force_update, payload, previous_payload)
    /\ pc' = Branch(changed', dry_run)
    /\ UNCHANGED <<file, dry_run, force_update, today_date, ncal, idx,
                   keep_events, payload, previous_payload, posts, err, srcs,
                   fileAtStart, lastFail, persisted, nvars, pvars>>

\* main after upload_calendar_json returns: save_payload is the next
\* statement whatever the response was
AfterUpload(status) == "save"

\* upload_calendar_json: requests.post answers with a status, or raises
Post ==
    /\ pc = "post"
    /\ \/ \E st \in Statuses :
            /\ posts' = Append(posts, [status |-> st, raised |-> FALSE])
            /\ pc' = AfterUpload(st)
            /\ err' = err
       \/ /\ posts' = Append(posts, [status |-> 0, raised |-> TRUE])
          /\ pc' = "aborted"
          /\ err' = "ConnectionError"
    /\ UNCHANGED <<file, dry_run, force_update, today_date, ncal, idx,
                   keep_events, payload, previous_payload, changed, srcs,
                   fileAtStart, lastFail, persisted, nvars, pvars>>

\* save_payload(payload) runs to its end
Save ==
    /\ pc = "save"
    /\ file' = save_payload(payload)
    /\ persisted' = [set |-> TRUE, srcs |-> srcs, today |-> today_date,
                     ok |-> posts[1].status = 200, fresh |-> TRUE]
    /\ pc' = "done"
    /\ UNCHANGED <<dry_run, force_update, today_date, ncal, idx, keep_events,
                   payload, previous_payload, changed, posts, err, srcs,
                   fileAtStart, lastFail, nvars, pvars>>

\* the process is killed inside save_payload: open(filename, "w") has
\* emptied the file and json.dump has written only a part of it
SaveInterrupted ==
    /\ pc = "save"
    /\ \E n \in CutPoints(Len(save_payload(payload).toks)) :
        file' = [exists |-> TRUE,
                 toks |-> SubSeq(save_payload(payload).toks, 1, n)]
    /\ persisted' = NoRun
    /\ pc' = "killed"
    /\ UNCHANGED <<dry_run, force_update, today_date, ncal, idx, keep_events,
                   payload, previous_payload, changed, posts, err, srcs,
                   fileAtStart, lastFail, nvars, pvars>>

\* the process ends: main returned, an exception left it, or it was killed
Exit ==
    /\ pc \in {"done", "aborted", "killed"}
    /\ pc' = "idle"
    /\ dry_run' = TRUE
    /\ force_update' = FALSE
    /\ today_date' = Day(2026, 1, 3)
    /\ ncal' = 0
    /\ idx' = 0
    /\ keep_events' = <<>>
    /\ payload' = JEmpty
    /\ previous_payload' = JEmpty
    /\ changed' = FALSE
    /\ posts' = <<>>
    /\ err' = ""
    /\ srcs' = <<>>
    /\ fileAtStart' = file
    /\ lastFail' = IF PostRefused
                   THEN [NoRun EXCEPT !.set = TRUE, !.srcs = srcs,
                                      !.today = today_date]
                   ELSE NoRun
    /\ persisted' = [persisted EXCEPT !.fresh = FALSE]
    /\ UNCHANGED <<file, nvars, pvars>>

Next ==
    \/ StartRun
    \/ FetchCalendar
    \/ BuildAndLoad
    \/ Detect
    \/ Post
    \/ Save
    \/ SaveInterrupted
    \/ Exit

Spec == Init /\ [][Next]_vars

(***************************************************************************)
(* parse_webcal alone, on every text of up to MaxBlocks event blocks       *)
(***************************************************************************)
MaxBlocks == 2

\* the DTSTART line of a block: none, timed, all-day, date-only
StartLines ==
    {<<>>,
     <<PropLine(<<"DTSTART">> \o TzParam, TimeText(2026, 1, 3, 12, 30))>>,
     <<PropLine(<<"DTSTART">> \o DateParam, DateText(2026, 1, 3))>>,
     <<PropLine(<<"DTSTART">>, DateText(2026, 1, 3))>>}

\* the DTEND line of a block: none, timed, all-day, VALUE=DATE-TIME
EndLines ==
    {<<>>,
     <<PropLine(<<"DTEND">> \o TzParam, TimeText(2026, 1, 3, 13, 15))>>,
     <<PropLine(<<"DTEND">> \o DateParam, DateText(2026, 1, 4))>>,
     <<PropLine(<<"DTEND", ";", "VALUE=DATE", "-TIME">>,
                TimeText(2026, 1, 3, 13, 15))>>}

SummaryLines == {<<>>, <<PropLine(<<"SUMMARY">>, <<"Example">>)>>}

Blocks ==
    {<<BEGIN_VEVENT>> \o s \o e \o m \o <<END_VEVENT>> :
        s \in StartLines, e \in EndLines, m \in SummaryLines}

RECURSIVE Flatten(_, _)
Flatten(seqs, n) ==
    IF n = 0 THEN <<>> ELSE Flatten(seqs, n - 1) \o seqs[n]

BlockSeqs == UNION {[1..n -> Blocks] : n \in 0..MaxBlocks}

InitNormalize ==
    /\ InitMain
    /\ ExtractorOff
    /\ FormatOff
    /\ DetectorOff
    /\ \E bs \in BlockSeqs :
        nData = parse_events(get_ics([status |-> 200,
                                      text |-> Flatten(bs, Len(bs))]).text)
    /\ nIdx = 0
    /\ nOut = <<>>
    /\ nFrom = <<>>
    /\ nPc = "loop"
    /\ nErr = ""

\* one iteration of `for item in data` that appends an event
NormalizeAppend ==
    /\ nPc = "loop"
    /\ nIdx < Len(nData)
    /\ LET r == NormalizeItem(nData[nIdx + 1].items)
       IN  /\ r.kind = "event"
           /\ nOut' = Append(nOut, r.event)
           /\ nFrom' = Append(nFrom, nIdx + 1)
    /\ nIdx' = nIdx + 1
    /\ UNCHANGED <<nData, nPc, nErr, mvars, pvars>>

\* one iteration that logs "Skipping all-day event" and continues
NormalizeSkip ==
    /\ nPc = "loop"
    /\ nIdx < Len(nData)
    /\ NormalizeItem(nData[nIdx + 1].items).kind = "skip"
    /\ nIdx' = nIdx + 1
    /\ UNCHANGED <<nData, nOut, nFrom, nPc, nErr, mvars, pvars>>

\* one iteration that raises: parse_webcal returns nothing
NormalizeRaise ==
    /\ nPc = "loop"
    /\ nIdx < Len(nData)
    /\ LET r == NormalizeItem(nData[nIdx + 1].items)
       IN  /\ r.kind = "raise"
           /\ nErr' = r.err
    /\ nPc' = "raised"
    /\ UNCHANGED <<nData, nIdx, nOut, nFrom, mvars, pvars>>

\* return events
NormalizeReturn ==
    /\ nPc = "loop"
    /\ nIdx = Len(nData)
    /\ nPc' = "returned"
    /\ UNCHANGED <<nData, nIdx, nOut, nFrom, nErr, mvars, pvars>>

NextNormalize ==
    \/ NormalizeAppend
    \/ NormalizeSkip
    \/ NormalizeRaise
    \/ NormalizeReturn

SpecNormalize == InitNormalize /\ [][NextNormalize]_vars

(***************************************************************************)
(* main from its entry to the payload: the loop over the calendar URLs,    *)
(* the sort, build_payload and load_payload of a first run                 *)
(***************************************************************************)
NextBuild ==
    \/ StartRun
    \/ FetchCalendar
    \/ BuildAndLoad

SpecBuild == Init /\ [][NextBuild]_vars

(***************************************************************************)
(* The time of an event, from the ICS value to the text of the payload,    *)
(* for every time of day                                                   *)
(***************************************************************************)
Hours == 0..23

Minutes == 0..59

InitFormat ==
    /\ InitMain
    /\ NormalizerOff
    /\ ExtractorOff
    /\ DetectorOff
    /\ tH \in Hours
    /\ tM \in Minutes
    /\ tOut = <<>>
    /\ tPc = "call"

\* parse_dt of the ICS value, then strftime("%I:%M %p").lstrip("0")
FormatCall ==
    /\ tPc = "call"
    /\ tOut' = FormatTime(parse_dt(TimeText(2026, 1, 3, tH, tM)).dt)
    /\ tPc' = "done"
    /\ UNCHANGED <<tH, tM, mvars, nvars, xvars, gvars>>

NextFormat == FormatCall

SpecFormat == InitFormat /\ [][NextFormat]_vars

(***************************************************************************)
(* The change detector alone: the payload of this run against the payload  *)
(* an earlier run saved, for lists of up to MaxEvents events               *)
(***************************************************************************)
MaxEvents == 2

\* the day of this run and the day of the run that saved the file: the same
\* day, the day before (in another month and year), and the same day of the
\* week, month and day of the month of another year
DayPairs ==
    {<<Day(2026, 1, 3), Day(2026, 1, 3)>>,
     <<Day(2026, 1, 1), Day(2025, 12, 31)>>,
     <<Day(2026, 1, 3), Day(2015, 1, 3)>>}

At(dte, h, mi) ==
    [y |-> dte.y, mo |-> dte.mo, d |-> dte.d, h |-> h, mi |-> mi, s |-> 0]

\* the events of a run of the day dte: three that start together and differ
\* in summary or end, one that starts later, one of the next day
DayEvents(dte) ==
    {[start |-> At(dte, 9, 0), end |-> At(dte, 10, 0), summary |-> <<"A">>],
     [start |-> At(dte, 9, 0), end |-> At(dte, 10, 0), summary |-> <<"B">>],
     [start |-> At(dte, 9, 0), end |-> At(dte, 10, 30), summary |-> <<"A">>],
     [start |-> At(dte, 9, 30), end |-> At(dte, 10, 0), summary |-> <<"A">>],
     [start |-> At(NextDay(dte), 9, 0), end |-> At(NextDay(dte), 10, 0),
      summary |-> <<"A">>]}

\* what keep_events can be after the sort: distinct events of today and
\* tomorrow, none starting before the one in front of it
KeepLists(dte) ==
    {l \in UNION {[1..n -> DayEvents(dte)] : n \in 0..MaxEvents} :
        \A i \in 1..Len(l) :
            \A j \in (i + 1)..Len(l) :
                l[i] # l[j] /\ ~DtBefore(l[j].start, l[i].start)}

Reversed(seq) == [i \in 1..Len(seq) |-> seq[Len(seq) + 1 - i]]

\* the payload with its top-level keys in the other order
TopReordered(p) == JDict(Reversed(p.v))

\* the payload with the keys of each bucket in the other order
BucketsReordered(p) ==
    JDict([i \in 1..Len(p.v) |->
            [k |-> p.v[i].k, v |-> JDict(Reversed(p.v[i].v.v))]])

\* the payloads build_payload can return on the first day of a pair
NewPayloads ==
    [days \in DayPairs |->
        {build_payload(l, days[1], NextDay(days[1])) :
            l \in KeepLists(days[1])}]

\* the payloads load_payload can return from the file that a run of the
\* second day of a pair saved
PrevPayloads ==
    [days \in DayPairs |->
        {load_payload(save_payload(
            build_payload(l, days[2], NextDay(days[2])))).payload :
            l \in KeepLists(days[2])}]

InitDetect ==
    /\ InitMain
    /\ NormalizerOff
    /\ ExtractorOff
    /\ FormatOff
    /\ \E days \in DayPairs, f \in BOOLEAN, d \in BOOLEAN :
        /\ gArgs = [today |-> days[1], prevToday |-> days[2],
                    force |-> f, dry |-> d]
        /\ gNew \in NewPayloads[days]
        /\ gPrev \in PrevPayloads[days]
    /\ gSame = <<TopReordered(gNew), BucketsReordered(gNew),
                 TopReordered(BucketsReordered(gNew))>>
    /\ gSums = <<>>
    /\ gChanged = FALSE
    /\ gBranch = ""
    /\ gPc = "call"

\* the if of main on the two payloads, and the fingerprints it compares
DetectCall ==
    /\ gPc = "call"
    /\ gSums' = <<payload_checksum(gNew), payload_checksum(gPrev)>>
                    \o [i \in 1..Len(gSame) |-> payload_checksum(gSame[i])]
    /\ gChanged' = IsChanged(gArgs.force, gNew, gPrev)
    /\ gBranch' = Branch(gChanged', gArgs.dry)
    /\ gPc' = "done"
    /\ UNCHANGED <<gArgs, gNew, gSame, gPrev, mvars, nvars, xvars, tvars>>

NextDetect == DetectCall

SpecDetect == InitDetect /\ [][NextDetect]_vars

(***************************************************************************)
(* parse_events alone, on every text of up to MaxLines lines               *)
(***************************************************************************)
MaxLines == 4

\* The lines of a text: the two markers, END:VEVENT with white space around
\* it, two properties (the value of one has a colon) and a line without a
\* colon.
TextLines ==
    {BEGIN_VEVENT,
     END_VEVENT,
     <<" ">> \o END_VEVENT \o <<" ">>,
     PropLine(<<"SUMMARY">>, <<"A">>),
     PropLine(<<"UID">>, <<"B", ":", "C">>),
     <<"X-NO-COLON">>}

Texts == UNION {[1..n -> TextLines] : n \in 0..MaxLines}

InitExtract ==
    /\ InitMain
    /\ NormalizerOff
    /\ FormatOff
    /\ DetectorOff
    /\ xText \in Texts
    /\ xPos = 0
    /\ xSt = ExtractInit
    /\ xDropped = {}
    /\ xPc = "loop"

\* the line the loop is at, stripped
NextLine == Strip(xText[xPos + 1])

\* if line == "BEGIN:VEVENT"
ExtractBegin ==
    /\ xPc = "loop"
    /\ xPos < Len(xText)
    /\ NextLine = BEGIN_VEVENT
    /\ xSt' = ExtractLine(xSt, xText[xPos + 1])
    /\ xDropped' = IF xSt.in_event THEN xDropped \cup {xSt.current.oid}
                   ELSE xDropped
    /\ xPos' = xPos + 1
    /\ UNCHANGED <<xText, xPc, mvars, nvars, tvars, gvars>>

\* if line == "END:VEVENT"
ExtractEnd ==
    /\ xPc = "loop"
    /\ xPos < Len(xText)
    /\ NextLine = END_VEVENT
    /\ xSt' = ExtractLine(xSt, xText[xPos + 1])
    /\ xPos' = xPos + 1
    /\ UNCHANGED <<xText, xDropped, xPc, mvars, nvars, tvars, gvars>>

\* a line inside an event block that has a colon
ExtractField ==
    /\ xPc = "loop"
    /\ xPos < Len(xText)
    /\ NextLine \notin {BEGIN_VEVENT, END_VEVENT}
    /\ xSt.in_event
    /\ Contains(NextLine, ":")
    /\ xSt' = ExtractLine(xSt, xText[xPos + 1])
    /\ xPos' = xPos + 1
    /\ UNCHANGED <<xText, xDropped, xPc, mvars, nvars, tvars, gvars>>

\* a line outside an event block, or one without a colon
ExtractOther ==
    /\ xPc = "loop"
    /\ xPos < Len(xText)
    /\ NextLine \notin {BEGIN_VEVENT, END_VEVENT}
    /\ ~xSt.in_event \/ ~Contains(NextLine, ":")
    /\ xSt' = ExtractLine(xSt, xText[xPos + 1])
    /\ xPos' = xPos + 1
    /\ UNCHANGED <<xText, xDropped, xPc, mvars, nvars, tvars, gvars>>

\* return events
ExtractReturn ==
    /\ xPc = "loop"
    /\ xPos = Len(xText)
    /\ xPc' = "returned"
    /\ UNCHANGED <<xText, xPos, xSt, xDropped, mvars, nvars, tvars, gvars>>

NextExtract ==
    \/ ExtractBegin
    \/ ExtractEnd
    \/ ExtractField
    \/ ExtractOther
    \/ ExtractReturn

SpecExtract == InitExtract /\ [][NextExtract]_vars

(***************************************************************************)
(* The properties                                                          *)
(***************************************************************************)
\* the file holds something json.load rejects
Corrupt(f) == f.exists /\ ~JsonLoad(f.toks).ok

\* the run got as far as build_payload and load_payload
Built ==
    \/ pc \in {"detect", "post", "save", "done", "killed"}
    \/ pc = "aborted" /\ err = "ConnectionError"

\* the run went past the change-detection step
PastDetect ==
    \/ pc \in {"save", "done", "killed"}
    \/ pc = "aborted" /\ err = "ConnectionError"

\* one of the calendar URLs of this run answered something parse_webcal
\* raises on
SourceFailed == \E i \in 1..Len(srcs) : ~Parsed[srcs[i]].ok

\* the file was written by an earlier run, which built its payload from the
\* same answers on the same day
SameAsPersisted ==
    /\ persisted.set
    /\ ~persisted.fresh
    /\ persisted.srcs = srcs
    /\ persisted.today = today_date

\* C1: in a run that is not a dry run and is treated as changed, a POST
\* answered with any status other than 200 leaves calendar_payload.json as
\* it was before the run.
C1_RefusedPublishNotPersisted ==
    (~dry_run /\ changed /\ PostRefused) => file = fileAtStart

\* C2: when the run before had its POST refused (a status other than 200)
\* and this run, not a dry run and without force, builds the same payload
\* from the same sources on the same day, this run is treated as changed
\* and attempts the POST again.
C2_RefusedPublishRetried ==
    (/\ pc = "done"
     /\ ~dry_run
     /\ ~force_update
     /\ lastFail.set
     /\ lastFail.srcs = srcs
     /\ lastFail.today = today_date)
        => (changed /\ Len(posts) = 1)

\* C3: a run that finds calendar_payload.json cut short by an interrupted
\* rewrite does not abort on it; if it is not a dry run it ends normally,
\* treated as changed, having posted and left a valid file.
C3_CorruptStateOnlyRepublishes ==
    /\ (Corrupt(fileAtStart) /\ pc = "aborted") => err # "JSONDecodeError"
    /\ (Corrupt(fileAtStart) /\ ~dry_run /\ pc = "done")
            => (changed /\ Len(posts) = 1 /\ ~Corrupt(file))

\* C4: after a run that was answered 200 and wrote its payload, a later run
\* without force whose sources and reference dates are the same builds a
\* payload with the fingerprint of the persisted one, makes no POST and
\* does not write the file.
C4_UnchangedRunIsSilent ==
    (Built /\ ~force_update /\ SameAsPersisted /\ persisted.ok)
        => /\ payload_checksum(payload) = payload_checksum(previous_payload)
           /\ pc \in {"detect", "done"}
           /\ pc = "done" => ~changed
           /\ posts = <<>>
           /\ file = fileAtStart

C4_Witness ==
    /\ pc = "done"
    /\ ~force_update
    /\ ~dry_run
    /\ SameAsPersisted
    /\ persisted.ok
    /\ Len(keep_events) >= 2

\* C5: a run with force_update and without dry_run that went past the
\* change-detection step has attempted a POST, whether or not the two
\* fingerprints are equal.
C5_ForceAlwaysPosts ==
    (force_update /\ ~dry_run /\ PastDetect) => (changed /\ Len(posts) = 1)

C5_Witness ==
    /\ force_update
    /\ ~dry_run
    /\ pc = "done"
    /\ Len(posts) = 1
    /\ payload_checksum(payload) = payload_checksum(previous_payload)

\* C6: a dry run makes no POST and never writes the file, whatever
\* force_update, the persisted state and the payload are.
C6_DryRunTouchesNothing ==
    dry_run => /\ posts = <<>>
               /\ file = fileAtStart
               /\ pc \notin {"post", "save", "killed"}

C6_Witness ==
    /\ dry_run
    /\ force_update
    /\ pc = "done"
    /\ changed
    /\ fileAtStart.exists
    /\ payload_checksum(payload) # payload_checksum(previous_payload)

\* C7: with no calendar_payload.json the run reads {} without an error, the
\* fingerprint of {} differs from that of every payload built, and a run
\* that is not a dry run is treated as changed and attempts the POST.
C7_FirstRunPublishes ==
    /\ ~fileAtStart.exists => err \notin {"FileNotFoundError", "JSONDecodeError"}
    /\ Built => payload_checksum(payload) # payload_checksum(JEmpty)
    /\ (Built /\ ~fileAtStart.exists) => previous_payload = JEmpty
    /\ (~fileAtStart.exists /\ ~dry_run /\ idx = ncal /\ ~SourceFailed)
            => pc \notin {"aborted"} \/ err = "ConnectionError"
    /\ (~fileAtStart.exists /\ ~dry_run /\ PastDetect)
            => (changed /\ Len(posts) = 1)

C7_Witness ==
    /\ ~fileAtStart.exists
    /\ ~dry_run
    /\ ~force_update
    /\ pc = "done"
    /\ Len(posts) = 1
    /\ keep_events = <<>>

\* C8: when the fetch or the normalization of any calendar source fails,
\* the run aborts before the payload is built and the change detection is
\* reached: no POST is made and the file is unchanged, also when earlier
\* sources were parsed.
C8_SourceFailureAbortsRun ==
    SourceFailed => /\ pc = "aborted"
                    /\ err = Parsed[srcs[Len(srcs)]].err
                    /\ payload = JEmpty
                    /\ ~changed
                    /\ posts = <<>>
                    /\ file = fileAtStart

C8_Witness ==
    /\ pc = "aborted"
    /\ Len(srcs) = 2
    /\ Parsed[srcs[1]].ok
    /\ err = "ValueError"
    /\ keep_events # <<>>
    /\ fileAtStart.exists

\* a key of the record that begins with DTSTART or DTEND and contains
\* VALUE=DATE
HasDateKey(items) ==
    \E i \in 1..Len(items) :
        /\ IsStartKey(items[i].k) \/ IsEndKey(items[i].k)
        /\ Contains(items[i].k, "VALUE=DATE")

HasBothKeys(items) ==
    /\ \E i \in 1..Len(items) : IsStartKey(items[i].k)
    /\ \E i \in 1..Len(items) : IsEndKey(items[i].k)

\* the events of both buckets of the payload built from events
BucketViews(events) ==
    LET kept == KeepUpTo(events, Len(events), Day(2026, 1, 3),
                         Day(2026, 1, 4))
        b == BucketsUpTo(kept, Len(kept), Day(2026, 1, 3))
    IN  b.today \o b.tomorrow

\* C9: no record whose start key or end key contains VALUE=DATE is the
\* source of an event of parse_webcal's list, so no event of either bucket
\* comes from such a record.
C9_AllDayNeverNormalized ==
    /\ Len(nFrom) = Len(nOut)
    /\ \A i \in 1..Len(nOut) :
        /\ ~HasDateKey(nData[nFrom[i]].items)
        /\ nOut[i] = NormalizeItem(nData[nFrom[i]].items).event
    /\ \A j \in 1..Len(BucketViews(nOut)) :
        \E i \in 1..Len(nOut) :
            /\ BucketViews(nOut)[j] = EventView(nOut[i])
            /\ ~HasDateKey(nData[nFrom[i]].items)

C9_Witness ==
    /\ nPc = "returned"
    /\ Len(nData) = 2
    /\ HasDateKey(nData[1].items)
    /\ nFrom = <<2>>
    /\ Len(BucketViews(nOut)) = 1

\* C10: a record that has a DTSTART key and a DTEND key, one of which
\* contains VALUE=DATE, is skipped without an exception, whatever other
\* keys it has or lacks.
C10_SkipNeverRaises ==
    (nPc = "raised" /\ HasBothKeys(nData[nIdx + 1].items))
        => ~HasDateKey(nData[nIdx + 1].items)

\* the markers of a text, white space trimmed
IsBeginLine(raw) == Strip(raw) = BEGIN_VEVENT

IsEndLine(raw) == Strip(raw) = END_VEVENT

BeginsIn(text, n) == Cardinality({i \in 1..n : IsBeginLine(text[i])})

EndsIn(text, n) == Cardinality({i \in 1..n : IsEndLine(text[i])})

\* among the first n lines BEGIN:VEVENT and END:VEVENT alternate, starting
\* with BEGIN:VEVENT
Alternating(text, n) ==
    \A i \in 1..n :
        /\ IsBeginLine(text[i]) => BeginsIn(text, i - 1) = EndsIn(text, i - 1)
        /\ IsEndLine(text[i]) => BeginsIn(text, i - 1) = EndsIn(text, i - 1) + 1

\* the place of the k-th END:VEVENT line
EndPlace(text, k) ==
    CHOOSE i \in 1..Len(text) : IsEndLine(text[i]) /\ EndsIn(text, i) = k

\* the place of the last BEGIN:VEVENT line before place e, 0 if none
LastBeginBefore(text, e) ==
    IF \E i \in 1..(e - 1) : IsBeginLine(text[i])
    THEN CHOOSE i \in 1..(e - 1) :
            /\ IsBeginLine(text[i])
            /\ \A j \in (i + 1)..(e - 1) : ~IsBeginLine(text[j])
    ELSE 0

\* the place of the first END:VEVENT line after place b
FirstEndAfter(text, b) ==
    CHOOSE i \in (b + 1)..Len(text) :
        /\ IsEndLine(text[i])
        /\ \A j \in (b + 1)..(i - 1) : ~IsEndLine(text[j])

\* items holds exactly the properties of the lines lo..hi, the last value of
\* each key
HoldsFields(items, text, lo, hi) ==
    LET fields == {i \in lo..hi : Contains(Strip(text[i]), ":")}
    IN  /\ \A i \in fields : DictHas(items, SplitKey(Strip(text[i])))
        /\ \A n \in 1..Len(items) :
            /\ \A m \in 1..Len(items) : items[m].k = items[n].k => m = n
            /\ \E i \in fields :
                /\ SplitKey(Strip(text[i])) = items[n].k
                /\ SplitVal(Strip(text[i])) = items[n].v
                /\ \A j \in fields :
                    SplitKey(Strip(text[j])) = items[n].k => j <= i

\* the record the k-th END:VEVENT line appends holds the properties between
\* the last BEGIN:VEVENT before it and the first END:VEVENT after that one;
\* with no BEGIN:VEVENT before it, it is empty
RecordAsWritten(text, k, items) ==
    LET b == LastBeginBefore(text, EndPlace(text, k))
    IN  IF b = 0 THEN items = <<>>
        ELSE HoldsFields(items, text, b + 1, FirstEndAfter(text, b) - 1)

\* C11: for a text whose BEGIN:VEVENT and END:VEVENT lines alternate,
\* starting with BEGIN:VEVENT, parse_events returns one record per pair, in
\* order of appearance (the k-th record is the dict the k-th BEGIN:VEVENT
\* made, with the properties of the k-th block), whatever lies between.
C11_OneRecordPerPair ==
    (xPc # "off" /\ Alternating(xText, xPos))
        => /\ Len(xSt.events) = EndsIn(xText, xPos)
           /\ xSt.in_event = (BeginsIn(xText, xPos) > EndsIn(xText, xPos))
           /\ \A k \in 1..Len(xSt.events) :
                /\ xSt.events[k].oid = k
                /\ RecordAsWritten(xText, k, xSt.events[k].items)

C11_Witness ==
    /\ xPc = "returned"
    /\ Alternating(xText, Len(xText))
    /\ Len(xSt.events) = 1
    /\ xText[2] = <<"X-NO-COLON">>
    /\ Len(xSt.events[1].items) = 1

\* C16: parse_events fails on no text, and a line met while no event block
\* is open never adds a record that is the same object as a record already
\* in the output.
C16_NoRecordTwice ==
    \A i \in 1..Len(xSt.events) :
        \A j \in 1..Len(xSt.events) :
            xSt.events[i].oid = xSt.events[j].oid => i = j

\* C19: for any text the number of records is the number of lines that are
\* END:VEVENT after trimming, and the dict of a block that a BEGIN:VEVENT
\* line found open is in no record: every record holds only the properties
\* that follow the last BEGIN:VEVENT before it.
C19_RecordsAreEndLines ==
    xPc # "off"
        => /\ Len(xSt.events) = EndsIn(xText, xPos)
           /\ \A k \in 1..Len(xSt.events) :
                /\ xSt.events[k].oid \notin xDropped
                /\ RecordAsWritten(xText, k, xSt.events[k].items)

C19_Witness ==
    /\ xPc = "returned"
    /\ ~Alternating(xText, Len(xText))
    /\ xDropped = {1}
    /\ Len(xSt.events) = 1
    /\ xSt.events[1].items = <<>>
    /\ xText[2] = PropLine(<<"SUMMARY">>, <<"A">>)

\* the events parse_webcal returned for the calendar URLs of this run, in
\* the order of the URLs and, within one, of the feed
RECURSIVE AllEvents(_, _)
AllEvents(ss, n) ==
    IF n = 0 THEN <<>> ELSE AllEvents(ss, n - 1) \o Parsed[ss[n]].events

\* payload[key]["events"]
BucketOf(p, key) == DictGet(DictGet(p.v, <<key>>).v, <<"events">>).v

\* how many members of seq are v
TimesIn(seq, v) == Cardinality({i \in 1..Len(seq) : seq[i] = v})

\* how many events of all that start on the day dte are shown as v, where
\* shown[i] is what the payload shows all[i] as
ShownAs(all, shown, dte, v) ==
    Cardinality({i \in 1..Len(all) :
                    shown[i] = v /\ DateOf(all[i].start) = dte})

\* C12: the payload a run builds holds exactly the events of all its
\* calendar sources that start on the run's today or tomorrow date: each in
\* the today bucket once if it starts today, in the tomorrow bucket once if
\* it starts tomorrow, and an event of any other date in neither.
C12_PayloadHoldsTodayAndTomorrow ==
    payload # JEmpty
        => LET all == AllEvents(srcs, Len(srcs))
               today == BucketOf(payload, "today")
               tomorrow == BucketOf(payload, "tomorrow")
               shown == [i \in 1..Len(all) |-> EventView(all[i])]
               views == {shown[i] : i \in 1..Len(all)}
                            \cup {today[i] : i \in 1..Len(today)}
                            \cup {tomorrow[i] : i \in 1..Len(tomorrow)}
           IN  \A v \in views :
                /\ TimesIn(today, v) = ShownAs(all, shown, today_date, v)
                /\ TimesIn(tomorrow, v) = ShownAs(all, shown, tomorrow_date, v)

C12_Witness ==
    /\ payload # JEmpty
    /\ srcs = <<1, 2>>
    /\ today_date = Day(2026, 1, 3)
    /\ Len(AllEvents(srcs, 2)) = 5
    /\ Len(BucketOf(payload, "today")) = 3
    /\ Len(BucketOf(payload, "tomorrow")) = 1

\* the events of this run that pass the date filter, in source order
KeptInSourceOrder ==
    LET all == AllEvents(srcs, Len(srcs))
    IN  KeepUpTo(all, Len(all), today_date, tomorrow_date)

\* the members of events that start at the time of e, in their order
StartingWith(events, e) ==
    LET SameStart(x) == x.start = e.start
    IN  SelectSeq(events, SameStart)

\* the members of events that start on the day dte, in their order
StartingOn(events, dte) ==
    LET OnDay(x) == DateOf(x.start) = dte
    IN  SelectSeq(events, OnDay)

NonDecreasing(events) ==
    \A i \in 1..Len(events) :
        \A j \in (i + 1)..Len(events) :
            ~DtBefore(events[j].start, events[i].start)

\* the bucket shows the events, one for one and in their order
ShowsInOrder(bucket, events) ==
    /\ Len(bucket) = Len(events)
    /\ \A i \in 1..Len(events) : bucket[i] = EventView(events[i])

\* C13: in each bucket of the payload the events are in non-decreasing
\* order of start, events that start at the same time are in source order
\* (order of the calendar URLs, then order within the feed), and
\* build_payload shows the list it is given in the order it is given.
C13_BucketsSortedStable ==
    payload # JEmpty
        => LET kept == KeptInSourceOrder
               today == StartingOn(keep_events, today_date)
               tomorrow == StartingOn(keep_events, tomorrow_date)
           IN  /\ Len(keep_events) = Len(kept)
               /\ NonDecreasing(keep_events)
               /\ \A i \in 1..Len(keep_events) :
                    StartingWith(keep_events, keep_events[i])
                        = StartingWith(kept, keep_events[i])
               /\ NonDecreasing(today)
               /\ NonDecreasing(tomorrow)
               /\ ShowsInOrder(BucketOf(payload, "today"), today)
               /\ ShowsInOrder(BucketOf(payload, "tomorrow"), tomorrow)

C13_Witness ==
    /\ payload # JEmpty
    /\ srcs = <<2, 1>>
    /\ today_date = Day(2026, 1, 3)
    /\ keep_events # KeptInSourceOrder
    /\ Len(BucketOf(payload, "today")) = 3
    /\ keep_events[2].start = keep_events[3].start
    /\ keep_events[2].summary = <<"Lunch">>
    /\ keep_events[3].summary = <<"Example">>

DigitNames == <<"0", "1", "2", "3", "4", "5", "6", "7", "8", "9">>

\* the hour of the 12-hour clock
ClockHour(h) == IF h % 12 = 0 THEN 12 ELSE h % 12

\* a number below 100 without a leading zero
Plain(n) ==
    IF n >= 10 THEN <<DigitNames[(n \div 10) + 1], DigitNames[(n % 10) + 1]>>
    ELSE <<DigitNames[n + 1]>>

\* C14: for every hour h in 0..23 and minute m in 0..59 the time is written
\* H:MM AM/PM, where H is 12 when h mod 12 = 0 and h mod 12 otherwise,
\* without a leading zero, MM is the minute in two digits, and the suffix
\* is AM for h < 12 and PM for h >= 12.
C14_TimeFormat ==
    tPc = "done"
        => tOut = Plain(ClockHour(tH))
                    \o <<":", DigitNames[(tM \div 10) + 1],
                         DigitNames[(tM % 10) + 1], " ",
                         IF tH < 12 THEN "AM" ELSE "PM">>

C14_Witness ==
    /\ tPc = "done"
    /\ tH = 13
    /\ tM = 5
    /\ tOut = <<"1", ":", "0", "5", " ", "PM">>

\* C15: the two keys are looked up before the all-day test: a record with
\* no key beginning with DTSTART, or none beginning with DTEND, makes
\* parse_webcal raise (IndexError) and return no events, also when the one
\* key it has contains VALUE=DATE; every record the loop went past, appended
\* or skipped as all-day, has both keys.
C15_MissingKeyIsFatal ==
    /\ \A i \in 1..nIdx : HasBothKeys(nData[i].items)
    /\ nPc = "returned" => \A i \in 1..Len(nData) : HasBothKeys(nData[i].items)
    /\ (nPc = "loop" /\ nIdx < Len(nData)
            /\ ~HasBothKeys(nData[nIdx + 1].items))
        => /\ ENABLED NormalizeRaise
           /\ ~ENABLED NormalizeSkip
           /\ ~ENABLED NormalizeAppend
    /\ (nPc = "raised" /\ ~HasBothKeys(nData[nIdx + 1].items))
        => /\ nErr = "IndexError"
           /\ NormalizeAll(nData)
                = [ok |-> FALSE, err |-> "IndexError", events |-> <<>>]

C15_Witness ==
    /\ nPc = "raised"
    /\ nErr = "IndexError"
    /\ nIdx = 1
    /\ nOut # <<>>
    /\ HasDateKey(nData[2].items)
    /\ ~HasBothKeys(nData[2].items)

\* the two payloads differ in an event (its start, end or summary) or in
\* the order of the events of a bucket
DiffersInEvents(p, q) ==
    \/ BucketOf(p, "today") # BucketOf(q, "today")
    \/ BucketOf(p, "tomorrow") # BucketOf(q, "tomorrow")

\* C17: two payloads that differ only in the order of the top-level keys or
\* of the keys of a bucket have equal fingerprints; two payloads that
\* differ in the start, end or summary of an event, or in the order of the
\* events of a bucket, have different fingerprints and are treated as
\* changed.
C17_FingerprintCanonical ==
    gPc = "done"
        => /\ \A i \in 1..Len(gSame) : gSums[2 + i] = gSums[1]
           /\ DiffersInEvents(gNew, gPrev)
                => (gSums[1] # gSums[2] /\ gChanged)
           /\ gNew = gPrev => (gSums[1] = gSums[2] /\ gChanged = gArgs.force)

C17_Witness ==
    /\ gPc = "done"
    /\ ~gArgs.force
    /\ gArgs.today = gArgs.prevToday
    /\ \A i \in 1..3 : gSame[i] # gNew /\ gSums[2 + i] = gSums[1]
    /\ Len(BucketOf(gNew, "today")) = 2
    /\ BucketOf(gPrev, "today") = Reversed(BucketOf(gNew, "today"))
    /\ gChanged

\* C18: the payloads of two runs whose today dates differ are different and
\* have different fingerprints, whatever their events, so the run of the
\* new day is treated as changed and, unless it is a dry run, goes on to
\* the POST.
C18_NewDayAlwaysChanged ==
    (gPc = "done" /\ gArgs.today # gArgs.prevToday)
        => /\ gNew # gPrev
           /\ gSums[1] # gSums[2]
           /\ gChanged
           /\ ~gArgs.dry => gBranch = "post"

C18_Witness ==
    /\ gPc = "done"
    /\ gArgs.today = Day(2026, 1, 3)
    /\ gArgs.prevToday = Day(2015, 1, 3)
    /\ ~gArgs.force
    /\ ~gArgs.dry
    /\ BucketOf(gNew, "today") = <<>>
    /\ BucketOf(gNew, "tomorrow") = <<>>
    /\ ~DiffersInEvents(gNew, gPrev)
    /\ gBranch = "post"
====
